---- MODULE Spec2Model ----
(***************************************************************************)
(* A model of the two primitives of the repository:                        *)
(*   tools/psp_merkle_root.rs      psp_merkle_root_from_tick_hashes        *)
(*   packages/sdk/rust/ingestion.rs  ingest_plug                           *)
(*                                                                         *)
(* A Rust String is modelled as the sequence of its UTF-8 bytes (str::len  *)
(* and str slicing count bytes).  A digest is a sequence of bytes.         *)
(* SHA-256 is modelled as a collision-free symbolic function: the digest   *)
(* of a preimage is the preimage under the marker 256, which is no byte,   *)
(* so digests of distinct preimages differ and no digest of a preimage     *)
(* equals a decoded leaf.                                                  *)
(***************************************************************************)
EXTENDS Integers, Sequences, FiniteSets, TLC

VARIABLES
    op,             \* which operation this run calls: "merkle" or "ingest"
    pc,             \* position inside the called function
    tick_hashes,    \* argument of psp_merkle_root_from_tick_hashes
    layer,          \* local `layer`
    hashes,         \* number of sha256 invocations made so far
    result,         \* what psp_merkle_root_from_tick_hashes returned
    json,           \* argument of ingest_plug
    checks_run,     \* the conditions of ingest_plug evaluated so far, in order
    ingest_result   \* what ingest_plug returned

vars == <<op, pc, tick_hashes, layer, hashes, result, json, checks_run, ingest_result>>

-----------------------------------------------------------------------------
(* Bounds of the model *)

\* longest sequence of well-formed leaves given to the tree builder
MaxLeaves == 4
\* longest sequence of arbitrary (well-formed or malformed) tags
MaxMixed == 3

-----------------------------------------------------------------------------
(* Strings as UTF-8 bytes *)

RECURSIVE Repeat(_, _)
\* str::repeat
Repeat(s, n) == IF n = 0 THEN <<>> ELSE s \o Repeat(s, n - 1)

\* "PSP.MerkleRoot.v1"
DOMAIN_ == <<80, 83, 80, 46, 77, 101, 114, 107, 108, 101, 82, 111, 111, 116, 46, 118, 49>>

\* "sha256:"
SHA_TAG_PREFIX == <<115, 104, 97, 50, 53, 54, 58>>

\* str::starts_with
starts_with(s, p) == Len(s) >= Len(p) /\ SubSeq(s, 1, Len(p)) = p

\* str::is_char_boundary: index 0, the length, or a byte that is no UTF-8
\* continuation byte (0x80..0xBF)
is_char_boundary(s, idx) ==
    \/ idx = 0
    \/ idx = Len(s)
    \/ idx < Len(s) /\ s[idx + 1] \notin 128..191

\* char::to_digit(16) on one byte; -1 stands for None
to_digit(c) ==
    IF c \in 48..57 THEN c - 48
    ELSE IF c \in 97..102 THEN c - 87
    ELSE IF c \in 65..70 THEN c - 55
    ELSE -1

RECURSIVE radix_value(_, _)
\* the accumulation loop of from_str_radix: result * 16 + digit
radix_value(digits, acc) ==
    IF digits = <<>> THEN acc
    ELSE radix_value(Tail(digits), acc * 16 + to_digit(Head(digits)))

\* u8::from_str_radix(src, 16); -1 stands for Err.  An unsigned type strips
\* a leading '+' and treats a leading '-' as an (invalid) digit.
from_str_radix(src) ==
    IF src = <<>> THEN -1
    ELSE IF Len(src) = 1 /\ src[1] \in {43, 45} THEN -1
    ELSE LET digits == IF src[1] = 43 THEN Tail(src) ELSE src
         IN  IF \E k \in 1..Len(digits) : to_digit(digits[k]) = -1 THEN -1
             ELSE IF radix_value(digits, 0) > 255 THEN -1
             ELSE radix_value(digits, 0)

-----------------------------------------------------------------------------
(* HashCodec *)

NoMessage == [text |-> "", tag |-> <<>>]

DecodeOk(bytes) == [status |-> "ok", bytes |-> bytes, msg |-> NoMessage]
DecodeErr(text, tag) == [status |-> "err", bytes |-> <<>>, msg |-> [text |-> text, tag |-> tag]]
\* slicing a str off a char boundary panics
DecodePanic == [status |-> "panic", bytes |-> <<>>, msg |-> NoMessage]

RECURSIVE decode_loop(_, _, _, _)
\* for i in 0..32 { out[i] = u8::from_str_radix(&hex[i*2..i*2+2], 16)? }
decode_loop(tag, hex, i, out) ==
    IF i = 32 THEN DecodeOk(out)
    ELSE IF ~is_char_boundary(hex, i * 2) \/ ~is_char_boundary(hex, i * 2 + 2)
         THEN DecodePanic
    ELSE LET b == from_str_radix(SubSeq(hex, i * 2 + 1, i * 2 + 2))
         IN  IF b = -1 THEN DecodeErr("bad hex in sha tag: ", tag)
             ELSE decode_loop(tag, hex, i + 1, Append(out, b))

sha_tag_to_bytes(tag) ==
    IF ~starts_with(tag, SHA_TAG_PREFIX) \/ Len(tag) # Len(SHA_TAG_PREFIX) + 64
    THEN DecodeErr("bad sha tag: ", tag)
    ELSE decode_loop(tag, SubSeq(tag, Len(SHA_TAG_PREFIX) + 1, Len(tag)), 0, <<>>)

\* variant: upper-case digits, as "{:02X}" would give
hex_digit_upper(n) == IF n < 10 THEN 48 + n ELSE 55 + n

\* one digit of format!("{:02x}")
hex_digit(n) == IF n < 10 THEN 48 + n ELSE 87 + n

\* format!("{:02x}", b)
format_02x(b) == <<hex_digit(b \div 16), hex_digit(b % 16)>>

RECURSIVE push_hex(_)
\* for b in bytes { s.push_str(&format!("{:02x}", b)) }
push_hex(bytes) ==
    IF bytes = <<>> THEN <<>> ELSE format_02x(Head(bytes)) \o push_hex(Tail(bytes))

\* a digest produced by sha256 (its bytes are not known to the model)
IsHashed(bytes) == bytes # <<>> /\ bytes[1] = 256

\* The hex digits of a hashed digest are not known either: they are
\* represented by the digest itself under the marker 257.
bytes_to_sha_tag(bytes) ==
    IF IsHashed(bytes) THEN SHA_TAG_PREFIX \o <<257>> \o bytes
    ELSE SHA_TAG_PREFIX \o push_hex(bytes)

\* Sha256::new(); update(preimage); finalize()
sha256(preimage) == <<256>> \o preimage

-----------------------------------------------------------------------------
(* MerkleTreeBuilder *)

RECURSIVE lex_le(_, _)
\* lexicographic order on byte sequences
lex_le(a, b) ==
    IF a = <<>> THEN TRUE
    ELSE IF b = <<>> THEN FALSE
    ELSE IF Head(a) # Head(b) THEN Head(a) < Head(b)
    ELSE lex_le(Tail(a), Tail(b))

\* variant: the pair is sorted before it is hashed
parent_sorted(left, right) ==
    IF lex_le(left, right)
    THEN sha256(DOMAIN_ \o <<0>> \o left \o right)
    ELSE sha256(DOMAIN_ \o <<0>> \o right \o left)

\* preimage = DOMAIN || 0x00 || left || right; the node pushed is its sha256
parent(left, right) == sha256(DOMAIN_ \o <<0>> \o left \o right)

RECURSIVE pair_level_zero_pad(_, _)
\* variant: the last node of an odd level is paired with the zero digest
pair_level_zero_pad(lay, i) ==
    IF i < Len(lay)
    THEN LET left  == lay[i + 1]
             right == IF i + 1 < Len(lay) THEN lay[i + 2] ELSE Repeat(<<0>>, 32)
         IN  <<parent(left, right)>> \o pair_level_zero_pad(lay, i + 2)
    ELSE <<>>

RECURSIVE pair_level_promote(_, _)
\* variant: the last node of an odd level moves up unhashed
pair_level_promote(lay, i) ==
    IF i < Len(lay)
    THEN IF i + 1 < Len(lay)
         THEN <<parent(lay[i + 1], lay[i + 2])>> \o pair_level_promote(lay, i + 2)
         ELSE <<lay[i + 1]>>
    ELSE <<>>

RECURSIVE pair_level(_, _)
\* the inner loop: while i < layer.len() { ...; next.push(...); i += 2 }
\* (i counts from 0 as in the source; layer[i] there is layer[i + 1] here)
pair_level(lay, i) ==
    IF i < Len(lay)
    THEN LET left  == lay[i + 1]
             right == IF i + 1 < Len(lay) THEN lay[i + 2] ELSE lay[i + 1]
         IN  <<parent(left, right)>> \o pair_level(lay, i + 2)
    ELSE <<>>

\* variant: the loop stops one level early
loop_continues_above_two(lay) == Len(lay) > 2

\* the condition of the outer loop
loop_continues(lay) == Len(lay) > 1

\* "sha256:" followed by 64 '0'
zero_tag == SHA_TAG_PREFIX \o Repeat(<<48>>, 64)

NoResult   == [status |-> "none",  value |-> <<>>, msg |-> NoMessage]
Ok(tag)    == [status |-> "ok",    value |-> tag,  msg |-> NoMessage]
Err(msg)   == [status |-> "err",   value |-> <<>>, msg |-> msg]
Panicked   == [status |-> "panic", value |-> <<>>, msg |-> NoMessage]

RECURSIVE decode_all(_, _)
\* for t in tick_hashes { layer.push(sha_tag_to_bytes(t)?) } as a function:
\* the decoded layer, or the first failure
decode_all(tags, lay) ==
    IF tags = <<>> THEN DecodeOk(lay)
    ELSE LET d == sha_tag_to_bytes(Head(tags))
         IN  IF d.status = "ok" THEN decode_all(Tail(tags), Append(lay, d.bytes))
             ELSE d

RECURSIVE reduce(_)
\* while layer.len() > 1 { layer = next } as a function
reduce(lay) == IF loop_continues(lay) THEN reduce(pair_level(lay, 0)) ELSE lay

\* psp_merkle_root_from_tick_hashes as a function of its argument
psp_merkle_root(tags) ==
    IF tags = <<>> THEN Ok(zero_tag)
    ELSE LET d == decode_all(tags, <<>>)
         IN  IF d.status = "ok" THEN Ok(bytes_to_sha_tag(reduce(d.bytes)[1]))
             ELSE IF d.status = "err" THEN Err(d.msg)
             ELSE Panicked

-----------------------------------------------------------------------------
(* The tags the model gives to the tree builder *)

TagOf(hex) == SHA_TAG_PREFIX \o hex

\* well-formed: "11" * 32, "22" * 32, "ab" * 32
TagA == TagOf(Repeat(<<49, 49>>, 32))
TagB == TagOf(Repeat(<<50, 50>>, 32))
TagC == TagOf(Repeat(<<97, 98>>, 32))
\* upper-case hex: "AB" * 32
TagUpper == TagOf(Repeat(<<65, 66>>, 32))
\* a sign in a byte group: "+f" then "00" * 31, "-1" then "00" * 31
TagPlus  == TagOf(<<43, 102>> \o Repeat(<<48, 48>>, 31))
TagMinus == TagOf(<<45, 49>> \o Repeat(<<48, 48>>, 31))
\* a letter that is no hex digit: "0g" then "00" * 31
TagNonHex == TagOf(<<48, 103>> \o Repeat(<<48, 48>>, 31))
\* another algorithm: "sha512:" then "11" * 32
TagBadPrefix == <<115, 104, 97, 53, 49, 50, 58>> \o Repeat(<<49, 49>>, 32)
\* too short: "11" * 31
TagShort == TagOf(Repeat(<<49, 49>>, 31))
\* 71 bytes with a two-byte character across a group: "0", U+00E9, "0", "00" * 30
TagSplit == TagOf(<<48, 195, 169, 48>> \o Repeat(<<48, 48>>, 30))

WellFormedTags == {TagA, TagB, TagC}
MalformedTags  == {TagUpper, TagPlus, TagMinus, TagNonHex, TagBadPrefix, TagShort, TagSplit}

SeqsUpTo(S, n) == UNION {[1..k -> S] : k \in 0..n}

TickInputs ==
    SeqsUpTo(WellFormedTags, MaxLeaves) \cup SeqsUpTo(WellFormedTags \cup MalformedTags, MaxMixed)

-----------------------------------------------------------------------------
(* PlugValidator *)

\* Option<T>: None is <<>>, Some(x) is <<x>>
None == <<>>
Some(x) == <<x>>

\* the text is abstracted to what serde_json::from_str makes of it: whether
\* it deserializes into a CieV2PlugV1, and if so the value
Bundle(wellformed, plug) == [wellformed |-> wellformed, plug |-> plug]

KernelTokenV1(capsule_digest, merkle_root) ==
    [schema_version |-> "kernel_token.v1", world_id |-> "world-1",
     capsule_digest |-> capsule_digest, merkle_root |-> merkle_root, tick_count |-> 2]

InvariantSetV1(capsule_digest, merkle_root) ==
    [schema_version |-> "invariant_set.v1", world_id |-> "world-1",
     capsule_digest |-> capsule_digest, merkle_root |-> merkle_root, tick_count |-> 2,
     invariants |-> "invariants-payload", attestation |-> "attestation-payload"]

CapsuleRef == [kind |-> "file", uri |-> "capsule://1"]

SchemaVersions == {"cie_v2_plug.v1", "cie_v2_plug.v2"}
CapsuleDigests == {"sha256:capsule-1", "sha256:capsule-2"}
MerkleRoots    == {"sha256:root-1", "sha256:root-2"}

Plugs ==
    {[schema_version       |-> sv,
      world_id             |-> "world-1",
      capsule_digest       |-> cd,
      engine_hash          |-> "sha256:engine",
      baseline_merkle_root |-> base,
      kernel_token         |-> KernelTokenV1(kcd, kmr),
      invariant_set        |-> InvariantSetV1(icd, imr),
      extractor_version    |-> "extractor-1",
      capsule_ref          |-> cr] :
        sv \in SchemaVersions, cd \in CapsuleDigests, base \in MerkleRoots,
        kcd \in CapsuleDigests, kmr \in MerkleRoots,
        icd \in CapsuleDigests, imr \in MerkleRoots,
        cr \in {None, Some(CapsuleRef)}}

SomePlug == CHOOSE p \in Plugs : TRUE

JsonInputs == {Bundle(FALSE, SomePlug)} \cup {Bundle(TRUE, p) : p \in Plugs}

\* variant: the third check repeats the fourth
kernel_root_mismatch_copied(plug) == plug.invariant_set.merkle_root # plug.baseline_merkle_root
\* variant: the fourth check compares the capsule digests
invariant_root_mismatch_digest(plug) == plug.invariant_set.capsule_digest # plug.capsule_digest

\* the conditions of the four `if`s, in source order
schema_unsupported(plug)      == plug.schema_version # "cie_v2_plug.v1"
capsule_digest_mismatch(plug) == plug.kernel_token.capsule_digest # plug.capsule_digest
kernel_root_mismatch(plug)    == plug.kernel_token.merkle_root # plug.baseline_merkle_root
invariant_root_mismatch(plug) == plug.invariant_set.merkle_root # plug.baseline_merkle_root

\* variant: psp taken from the capsule digest
AgentContext_wrong_psp(plug) ==
    [world_id       |-> plug.world_id,
     capsule_digest |-> plug.capsule_digest,
     engine_hash    |-> plug.engine_hash,
     psp            |-> plug.capsule_digest,
     kernel_token   |-> plug.kernel_token,
     invariants     |-> plug.invariant_set,
     capsule_ref    |-> plug.capsule_ref]

\* Ok(AgentContext { ... })
AgentContext(plug) ==
    [world_id       |-> plug.world_id,
     capsule_digest |-> plug.capsule_digest,
     engine_hash    |-> plug.engine_hash,
     psp            |-> plug.baseline_merkle_root,
     kernel_token   |-> plug.kernel_token,
     invariants     |-> plug.invariant_set,
     capsule_ref    |-> plug.capsule_ref]

NoIngestResult   == [status |-> "none", error |-> "", context |-> None]
IngestOk(ctx)    == [status |-> "ok",   error |-> "", context |-> Some(ctx)]
\* anyhow::bail!(message), and the `?` on the parse
IngestErr(error) == [status |-> "err",  error |-> error, context |-> None]

-----------------------------------------------------------------------------
(* The state machine: one call of one of the two functions per behaviour *)

Init ==
    /\ op \in {"merkle", "ingest"}
    /\ pc = "entry"
    /\ IF op = "merkle"
       THEN tick_hashes \in TickInputs /\ json = Bundle(FALSE, SomePlug)
       ELSE tick_hashes = <<>> /\ json \in JsonInputs
    /\ layer = <<>>
    /\ hashes = 0
    /\ result = NoResult
    /\ checks_run = <<>>
    /\ ingest_result = NoIngestResult

IngestUnchanged == UNCHANGED <<op, json, checks_run, ingest_result>>
MerkleUnchanged == UNCHANGED <<op, tick_hashes, layer, hashes, result>>

\* if tick_hashes.is_empty() { return Ok(zero tag) }
CheckEmpty ==
    /\ op = "merkle" /\ pc = "entry"
    /\ IF tick_hashes = <<>>
       THEN pc' = "done" /\ result' = Ok(zero_tag)
       ELSE pc' = "decode" /\ result' = result
    /\ UNCHANGED <<tick_hashes, layer, hashes>>
    /\ IngestUnchanged

\* one round of: for t in tick_hashes { layer.push(sha_tag_to_bytes(t)?) }
DecodeLeaf ==
    /\ op = "merkle" /\ pc = "decode"
    /\ LET d == sha_tag_to_bytes(tick_hashes[Len(layer) + 1])
       IN  IF d.status = "ok"
           THEN /\ layer' = Append(layer, d.bytes)
                /\ pc' = IF Len(layer) + 1 = Len(tick_hashes) THEN "loop" ELSE "decode"
                /\ result' = result
           ELSE /\ layer' = <<>>
                /\ pc' = "done"
                /\ result' = IF d.status = "err" THEN Err(d.msg) ELSE Panicked
    /\ UNCHANGED <<tick_hashes, hashes>>
    /\ IngestUnchanged

\* one round of: while layer.len() > 1 { ...; layer = next }
OuterIteration ==
    /\ op = "merkle" /\ pc = "loop"
    /\ loop_continues(layer)
    /\ layer' = pair_level(layer, 0)
    /\ hashes' = hashes + Len(layer')
    /\ UNCHANGED <<pc, tick_hashes, result>>
    /\ IngestUnchanged

\* Ok(bytes_to_sha_tag(&layer[0]))
ReturnRoot ==
    /\ op = "merkle" /\ pc = "loop"
    /\ ~loop_continues(layer)
    /\ result' = Ok(bytes_to_sha_tag(layer[1]))
    /\ pc' = "done"
    /\ UNCHANGED <<tick_hashes, layer, hashes>>
    /\ IngestUnchanged

\* let plug: CieV2PlugV1 = serde_json::from_str(json)?
Parse ==
    /\ op = "ingest" /\ pc = "entry"
    /\ IF json.wellformed
       THEN pc' = "schema" /\ ingest_result' = ingest_result
       ELSE pc' = "done" /\ ingest_result' = IngestErr("parse error")
    /\ UNCHANGED <<json, checks_run>>
    /\ MerkleUnchanged

\* one `if cond { bail!(error) }`, falling through to the position `then`
Check(at, cond, error, then) ==
    /\ op = "ingest" /\ pc = at
    /\ checks_run' = Append(checks_run, at)
    /\ IF cond
       THEN pc' = "done" /\ ingest_result' = IngestErr(error)
       ELSE pc' = then /\ ingest_result' = ingest_result
    /\ UNCHANGED json
    /\ MerkleUnchanged

CheckSchema ==
    Check("schema", schema_unsupported(json.plug),
          "unsupported schema_version", "capsule_digest")

CheckCapsuleDigest ==
    Check("capsule_digest", capsule_digest_mismatch(json.plug),
          "kernel_token.capsule_digest mismatch", "kernel_root")

CheckKernelRoot ==
    Check("kernel_root", kernel_root_mismatch(json.plug),
          "kernel_token.merkle_root != baseline_merkle_root", "invariant_root")

CheckInvariantRoot ==
    Check("invariant_root", invariant_root_mismatch(json.plug),
          "invariant_set.merkle_root != baseline_merkle_root", "build")

\* Ok(AgentContext { ... })
BuildContext ==
    /\ op = "ingest" /\ pc = "build"
    /\ ingest_result' = IngestOk(AgentContext(json.plug))
    /\ pc' = "done"
    /\ UNCHANGED <<json, checks_run>>
    /\ MerkleUnchanged

Next ==
    \/ CheckEmpty
    \/ DecodeLeaf
    \/ OuterIteration
    \/ ReturnRoot
    \/ Parse
    \/ CheckSchema
    \/ CheckCapsuleDigest
    \/ CheckKernelRoot
    \/ CheckInvariantRoot
    \/ BuildContext

Spec == Init /\ [][Next]_vars

\* The tree builder alone, on well-formed leaves.  The loop of a call that
\* has started runs to the return: the code is sequential and nothing
\* preempts it.
TreeInit == Init /\ op = "merkle" /\ tick_hashes \in SeqsUpTo(WellFormedTags, MaxLeaves)

TreeNext ==
    \/ CheckEmpty
    \/ DecodeLeaf
    \/ OuterIteration
    \/ ReturnRoot

TreeFairSpec ==
    TreeInit /\ [][TreeNext]_vars /\ WF_vars(OuterIteration) /\ WF_vars(ReturnRoot)

-----------------------------------------------------------------------------
(* What the claims speak of *)

\* the tag matches ^sha256:[0-9a-f]{64}$
Canonical(tag) ==
    /\ Len(tag) = 71
    /\ SubSeq(tag, 1, 7) = SHA_TAG_PREFIX
    /\ \A k \in 8..71 : tag[k] \in (48..57) \cup (97..102)

AllCanonical(tags) == \A k \in 1..Len(tags) : Canonical(tags[k])

MerkleDone == op = "merkle" /\ pc = "done"
IngestDone == op = "ingest" /\ pc = "done"

\* the digest a tag stands for
Digest(tag) == sha_tag_to_bytes(tag).bytes

\* H(l, r) = SHA-256(DOMAIN || 0x00 || l || r)
H(l, r) == sha256(DOMAIN_ \o <<0>> \o l \o r)

-----------------------------------------------------------------------------
(* C1 *)

\* C1, as stated: for every valid hash tag x the root of [x] is the tag of
\* SHA-256(DOMAIN || 0x00 || x || x).
C1_SingleLeafHashed ==
    (MerkleDone /\ Len(tick_hashes) = 1 /\ Canonical(tick_hashes[1]))
        => result = Ok(bytes_to_sha_tag(H(Digest(tick_hashes[1]), Digest(tick_hashes[1]))))

\* C1, amended: for every valid hash tag x the root of [x] is x itself, and
\* no SHA-256 is computed: the loop runs only while the layer holds more than
\* one node.
C1_SingleLeafReturned ==
    (MerkleDone /\ Len(tick_hashes) = 1 /\ Canonical(tick_hashes[1]))
        => result = Ok(tick_hashes[1]) /\ hashes = 0

C1_Witness ==
    MerkleDone /\ tick_hashes = <<TagC>> /\ result.status = "ok"

-----------------------------------------------------------------------------
(* C2 *)

\* C2: whenever some leaf of a non-empty sequence does not match
\* ^sha256:[0-9a-f]{64}$, the call returns an error and no root.
C2_MalformedRejected ==
    (MerkleDone /\ tick_hashes # <<>> /\ ~AllCanonical(tick_hashes))
        => result.status = "err" /\ result.value = <<>>

-----------------------------------------------------------------------------
(* C3 *)

AllInvariantsHold(plug) ==
    /\ plug.schema_version = "cie_v2_plug.v1"
    /\ plug.kernel_token.capsule_digest = plug.capsule_digest
    /\ plug.kernel_token.merkle_root = plug.baseline_merkle_root
    /\ plug.invariant_set.merkle_root = plug.baseline_merkle_root

\* C3: a bundle that parses is accepted (a context is returned) if and only
\* if all four cross-invariants hold; otherwise an error and no context.
C3_AcceptedIffInvariants ==
    (IngestDone /\ json.wellformed)
        => /\ ingest_result.status \in {"ok", "err"}
           /\ ingest_result.status = "ok" <=> AllInvariantsHold(json.plug)
           /\ ingest_result.status = "ok" <=> ingest_result.context # None
           /\ ingest_result.status = "err" => ingest_result.error # ""

C3_Witness ==
    IngestDone /\ json.wellformed /\ ingest_result.status = "ok"
        /\ json.plug.invariant_set.capsule_digest # json.plug.capsule_digest

-----------------------------------------------------------------------------
(* C4 *)

\* the four checks in their order: violated or not
Violations(plug) ==
    <<plug.schema_version # "cie_v2_plug.v1",
      plug.kernel_token.capsule_digest # plug.capsule_digest,
      plug.kernel_token.merkle_root # plug.baseline_merkle_root,
      plug.invariant_set.merkle_root # plug.baseline_merkle_root>>

CheckOrder == <<"schema", "capsule_digest", "kernel_root", "invariant_root">>

Reasons ==
    <<"unsupported schema_version",
      "kernel_token.capsule_digest mismatch",
      "kernel_token.merkle_root != baseline_merkle_root",
      "invariant_set.merkle_root != baseline_merkle_root">>

FirstViolation(plug) ==
    CHOOSE k \in 1..4 : Violations(plug)[k] /\ \A j \in 1..(k - 1) : ~Violations(plug)[j]

\* C4: the error reported is that of the first failing check in the order
\* schema, capsule digest, kernel-token root, invariant-set root; the four
\* reasons differ; nothing after the failing check is evaluated.
C4_FirstFailureReported ==
    (IngestDone /\ json.wellformed /\ ~AllInvariantsHold(json.plug))
        => /\ ingest_result.status = "err"
           /\ ingest_result.error = Reasons[FirstViolation(json.plug)]
           /\ checks_run = SubSeq(CheckOrder, 1, FirstViolation(json.plug))
           /\ \A j, k \in 1..4 : j # k => Reasons[j] # Reasons[k]

C4_Witness ==
    /\ IngestDone /\ json.wellformed
    /\ Violations(json.plug) = <<FALSE, TRUE, FALSE, TRUE>>
    /\ ingest_result.error = "kernel_token.capsule_digest mismatch"

-----------------------------------------------------------------------------
(* C5 *)

\* the level above `lay`: (lay[2k-1], lay[2k]) left to right, the last node
\* of an odd level with itself
LevelAbove(lay) ==
    [k \in 1..((Len(lay) + 1) \div 2) |->
        H(lay[2 * k - 1], IF 2 * k <= Len(lay) THEN lay[2 * k] ELSE lay[2 * k - 1])]

C5_ThreeLeaves ==
    (MerkleDone /\ Len(tick_hashes) = 3 /\ result.status = "ok")
        => LET a == Digest(tick_hashes[1])
               b == Digest(tick_hashes[2])
               c == Digest(tick_hashes[3])
           IN  result.value = bytes_to_sha_tag(H(H(a, b), H(c, c)))

\* C5: every level is paired left to right, an odd level's last node with
\* itself; for three leaves [a, b, c] the root is H(H(a, b), H(c, c)).
C5_PairingWithDuplication ==
    /\ [][OuterIteration => layer' = LevelAbove(layer)]_vars
    /\ []C5_ThreeLeaves

C5_Witness ==
    MerkleDone /\ tick_hashes = <<TagA, TagB, TagC>> /\ result.status = "ok" /\ hashes = 3

-----------------------------------------------------------------------------
(* C6 *)

FailsToDecode(tag) == sha_tag_to_bytes(tag).status # "ok"

FirstFailing(tags) ==
    CHOOSE k \in 1..Len(tags) :
        FailsToDecode(tags[k]) /\ \A j \in 1..(k - 1) : ~FailsToDecode(tags[j])

\* C6: when some tag fails to decode, the call returns an error naming the
\* first such tag, computes no hash and returns no root.
C6_FirstFailureNamed ==
    (MerkleDone /\ \E k \in 1..Len(tick_hashes) : FailsToDecode(tick_hashes[k]))
        => /\ result.status = "err"
           /\ result.msg.tag = tick_hashes[FirstFailing(tick_hashes)]
           /\ result.value = <<>>
           /\ hashes = 0

-----------------------------------------------------------------------------
(* C7 *)

\* C7: an accepted bundle's context carries psp = baseline_merkle_root and
\* the other fields unchanged, so psp equals both inner roots and
\* capsule_digest equals the kernel token's.
C7_ContextCopiesPlug ==
    (IngestDone /\ ingest_result.status = "ok")
        => LET ctx  == ingest_result.context[1]
               plug == json.plug
           IN  /\ ctx.psp = plug.baseline_merkle_root
               /\ ctx.world_id = plug.world_id
               /\ ctx.capsule_digest = plug.capsule_digest
               /\ ctx.engine_hash = plug.engine_hash
               /\ ctx.kernel_token = plug.kernel_token
               /\ ctx.invariants = plug.invariant_set
               /\ ctx.capsule_ref = plug.capsule_ref
               /\ ctx.psp = ctx.kernel_token.merkle_root
               /\ ctx.psp = ctx.invariants.merkle_root
               /\ ctx.capsule_digest = ctx.kernel_token.capsule_digest

C7_Witness ==
    /\ IngestDone /\ ingest_result.status = "ok"
    /\ ingest_result.context[1].capsule_ref = Some(CapsuleRef)
    /\ ingest_result.context[1].psp = "sha256:root-2"

-----------------------------------------------------------------------------
(* C8 *)

Swap(s, i, j) == [s EXCEPT ![i] = s[j], ![j] = s[i]]

\* C8: swapping two distinct leaves of a sequence of valid tags changes the
\* root; in particular root([a, b]) # root([b, a]) for a # b.
C8_OrderSensitive ==
    (MerkleDone /\ result.status = "ok" /\ AllCanonical(tick_hashes))
        => \A i, j \in 1..Len(tick_hashes) :
              tick_hashes[i] # tick_hashes[j]
                  => /\ psp_merkle_root(Swap(tick_hashes, i, j)).status = "ok"
                     /\ psp_merkle_root(Swap(tick_hashes, i, j)).value # result.value

C8_Witness ==
    MerkleDone /\ tick_hashes = <<TagA, TagB>> /\ result.status = "ok" /\ hashes = 1

-----------------------------------------------------------------------------
(* C9 *)

C9_LayerNeverEmpty ==
    (op = "merkle" /\ pc = "loop") => Len(layer) >= 1

C9_OneNodeReturned ==
    (MerkleDone /\ tick_hashes # <<>> /\ result.status = "ok")
        => Len(layer) = 1 /\ result.value = bytes_to_sha_tag(layer[1])

\* C9: once the leaves are decoded the construction terminates; every round
\* of the outer loop turns k > 1 nodes into ceil(k/2), the loop ends with
\* exactly one node, which is returned encoded; the layer is never empty.
C9_Terminates ==
    /\ [][OuterIteration => Len(layer) > 1 /\ Len(layer') = (Len(layer) + 1) \div 2]_vars
    /\ []C9_LayerNeverEmpty
    /\ []C9_OneNodeReturned
    /\ ((op = "merkle" /\ pc = "loop") ~> MerkleDone)

C9_Witness ==
    MerkleDone /\ Len(tick_hashes) = 4 /\ result.status = "ok" /\ hashes = 3

-----------------------------------------------------------------------------
(* C10 *)

\* the root of every sequence of well-formed leaves the model draws
Roots ==
    {[leaves |-> s, root |-> psp_merkle_root(s)] : s \in SeqsUpTo(WellFormedTags, MaxLeaves)}

\* C10: for valid leaves of odd length n >= 3, appending a copy of the last
\* leaf leaves the root unchanged; among sequences of valid leaves of one
\* length the root determines the sequence.
C10_DuplicateTailSameRoot ==
    (MerkleDone /\ result.status = "ok" /\ AllCanonical(tick_hashes))
        => LET n == Len(tick_hashes)
           IN  /\ (n >= 3 /\ n % 2 = 1)
                      => psp_merkle_root(Append(tick_hashes, tick_hashes[n])) = result
               /\ \A other \in Roots :
                      (Len(other.leaves) = n /\ other.leaves # tick_hashes)
                          => other.root # result

C10_Witness ==
    MerkleDone /\ tick_hashes = <<TagA, TagB, TagC>> /\ result.status = "ok"
        /\ psp_merkle_root(<<TagA, TagB, TagC, TagC>>) = result

====
